---- MODULE Spec2Model ----
(***************************************************************************)
(* The chat endpoint of skilsmisse_jus: POST /api/chat and consumeStream,  *)
(* the tool-call dispatch it performs through searchLegalSources and       *)
(* performSearch, and the part of the chat client that holds the thread    *)
(* id between turns.                                                       *)
(*                                                                         *)
(* Texts are sequences.  A delta's text value is a sequence of code        *)
(* points and a chunk is the sequence of UTF-8 bytes TextEncoder makes of  *)
(* it.  A tool output is a sequence of tokens <<literal, query, index>>.   *)
(***************************************************************************)
EXTENDS Integers, Sequences, FiniteSets, TLC

\* ---------------------------------------------------------------- bounds
MaxTurns == 2      \* chat requests of one client session (SessionSpec)
MaxEvents == 3     \* events read in one turn, over all its streams
MaxRounds == 2     \* requires-action events with tool calls in one turn
MaxCalls == 2      \* tool calls carried by one requires-action event
MaxResults == 3    \* results the search provider returns for one query
MaxSubmits == 3    \* chat requests the chat client sends (ClientSpec)
MaxChunks == 2     \* chunks the chat client reads, over all its requests

\* ------------------------------------------------------------ input sets
\* request.message: absent/empty (falsy) or a text
Messages == {"", "Hva sier ekteskapsloven om gjeld?"}

\* request.threadId: 0 stands for every falsy value (undefined, null, ""),
\* a positive number is a thread id (known to the service or not)
ThreadIds == 0..MaxTurns

\* event.data.id of a requires-action event
RunIds == {1, 2}

\* delta.content[k].text.value: "", "a", "ob" with o = U+00F8
TextValues == {<<>>, <<97>>, <<248, 98>>}

TextPart(v) == [type |-> "text", hasValue |-> TRUE, value |-> v]

\* a text part whose text.value is missing
NoValuePart == [type |-> "text", hasValue |-> FALSE, value |-> <<>>]

ImagePart == [type |-> "image_file", hasValue |-> FALSE, value |-> <<>>]

\* delta.content: <<>> stands for an absent or empty content array
DeltaContents ==
    {<<>>, <<NoValuePart>>, <<ImagePart, TextPart(<<97>>)>>}
        \cup {<<TextPart(v)>> : v \in TextValues}

\* the deltas of a run whose tool calls are looked at: one text fragment
PlainDeltas == {<<TextPart(<<97>>)>>}

\* tc.function.arguments payloads
Payloads == {"{bad", "null", "{}", "{\"query\":\"q1\"}"}

ToolCallKinds ==
    {[name |-> "search_legal", arguments |-> p] : p \in Payloads}
        \cup {[name |-> "get_weather", arguments |-> "{}"]}

\* tool_calls of one requires-action event; the service gives the calls of
\* one event distinct ids, here the position in the event
ToolCallLists ==
    UNION {[1..k -> ToolCallKinds] : k \in 0..MaxCalls}

\* tool_calls of an event that asks for searches only, each with a query
SearchCallLists ==
    UNION {[1..k -> {[name |-> "search_legal", arguments |-> p] :
                        p \in {"{\"query\":\"q1\"}", "{\"query\":\"q2\"}"}}] :
             k \in 1..MaxCalls}

\* tool_calls of an event that carries one call
OneCallLists == [1..1 -> ToolCallKinds]

WithIds(kinds) ==
    [i \in 1..Len(kinds) |->
        [name |-> kinds[i].name, arguments |-> kinds[i].arguments, callId |-> i]]

\* what a call to the search provider ends in
ProviderOutcomes ==
    {[kind |-> "ok", n |-> n] : n \in 0..MaxResults}
        \cup {[kind |-> k, n |-> 0] : k \in {"noOrganic", "nonOk", "networkFail"}}

\* the provider's answers in the specifications that look at the event
\* stream: at most one result
FewOutcomes == {o \in ProviderOutcomes : o.n <= 1}

\* the two search libraries of the repository: src/unnamed/part_000 and
\* src/web/lib/serper.ts
Libs == {"part_000", "web"}

\* query of a direct search request or of a searchLegalSources call; "" is
\* a missing or empty query
SearchQueries == {"", "q1", "q2"}

\* ---------------------------------------------------------- pure helpers
Lit(s) == <<s, "", 0>>

\* JSON.parse(tc.function.arguments)
JSONParse(p) ==
    CASE p = "{bad" -> [ok |-> FALSE, isNull |-> FALSE, query |-> "undefined"]
      [] p = "null" -> [ok |-> TRUE, isNull |-> TRUE, query |-> "undefined"]
      [] p = "{}" -> [ok |-> TRUE, isNull |-> FALSE, query |-> "undefined"]
      [] p = "{\"query\":\"q2\"}" -> [ok |-> TRUE, isNull |-> FALSE, query |-> "q2"]
      [] OTHER -> [ok |-> TRUE, isNull |-> FALSE, query |-> "q1"]

\* new TextEncoder().encode(text): UTF-8, code points below 65536
RECURSIVE Encode(_)
Encode(text) ==
    IF text = <<>> THEN <<>>
    ELSE LET c == Head(text)
             bytes == IF c < 128 THEN <<c>>
                      ELSE IF c < 2048 THEN <<192 + (c \div 64), 128 + (c % 64)>>
                      ELSE <<224 + (c \div 4096), 128 + ((c \div 64) % 64), 128 + (c % 64)>>
         IN bytes \o Encode(Tail(text))

\* TextDecoder.decode(chunk) of the chat client, for whole characters
RECURSIVE Decode(_)
Decode(bytes) ==
    IF bytes = <<>> THEN <<>>
    ELSE IF Head(bytes) < 128 THEN <<Head(bytes)>> \o Decode(Tail(bytes))
    ELSE IF Len(bytes) >= 2
         THEN <<(Head(bytes) - 192) * 64 + (bytes[2] - 128)>> \o Decode(Tail(Tail(bytes)))
    ELSE <<65533>>

\* the continuation bytes a UTF-8 lead byte asks for; -1 for a byte that
\* cannot start a character (sequences of four bytes are not modelled)
Needed(b) ==
    IF b < 128 THEN 0
    ELSE IF b \in 194..223 THEN 1
    ELSE IF b \in 224..239 THEN 2
    ELSE -1

\* the code point of a complete sequence of two or three bytes
CodePoint(seq) ==
    IF Len(seq) = 2 THEN (seq[1] - 192) * 64 + (seq[2] - 128)
    ELSE (seq[1] - 224) * 4096 + (seq[2] - 128) * 64 + (seq[3] - 128)

\* the UTF-8 decoder of TextDecoder: rest holds the bytes of a character
\* that is not complete yet; a byte that cannot go on or start a character
\* gives U+FFFD
RECURSIVE DecodeBytes(_, _, _)
DecodeBytes(rest, bytes, acc) ==
    IF bytes = <<>> THEN [text |-> acc, rest |-> rest]
    ELSE LET b == Head(bytes)
         IN IF rest = <<>>
            THEN IF Needed(b) = 0 THEN DecodeBytes(<<>>, Tail(bytes), Append(acc, b))
                 ELSE IF Needed(b) > 0 THEN DecodeBytes(<<b>>, Tail(bytes), acc)
                 ELSE DecodeBytes(<<>>, Tail(bytes), Append(acc, 65533))
            ELSE IF b \in 128..191
                 THEN IF Len(rest) = Needed(rest[1])
                      THEN DecodeBytes(<<>>, Tail(bytes),
                                       Append(acc, CodePoint(Append(rest, b))))
                      ELSE DecodeBytes(Append(rest, b), Tail(bytes), acc)
                 ELSE DecodeBytes(<<>>, bytes, Append(acc, 65533))

\* decoder.decode(value, { stream: true }) of the chat client: the text of
\* the chunk and the bytes the decoder keeps for the next call
DecodeChunk(rest, bytes) == DecodeBytes(rest, bytes, <<>>)

\* the digits [0-9] of text t from position i on
RECURSIVE Digits(_, _)
Digits(t, i) ==
    IF i <= Len(t) /\ t[i] \in 48..57 THEN 1 + Digits(t, i + 1) ELSE 0

\* the characters of "†source】"
MarkerTail == <<8224, 115, 111, 117, 114, 99, 101, 12305>>

\* the length of the match of /【\d+:\d+†source】/ at position i of t, 0
\* for none
MarkerLen(t, i) ==
    IF t[i] # 12304 THEN 0
    ELSE LET d1 == Digits(t, i + 1)
             j == i + 1 + d1
         IN IF d1 = 0 \/ j > Len(t) \/ t[j] # 58 THEN 0
            ELSE LET d2 == Digits(t, j + 1)
                     k == j + 1 + d2
                 IN IF d2 > 0 /\ k + 7 <= Len(t) /\ SubSeq(t, k, k + 7) = MarkerTail
                    THEN k + 8 - i
                    ELSE 0

RECURSIVE CleanFrom(_, _)
CleanFrom(t, i) ==
    IF i > Len(t) THEN <<>>
    ELSE IF MarkerLen(t, i) > 0 THEN CleanFrom(t, i + MarkerLen(t, i))
    ELSE <<t[i]>> \o CleanFrom(t, i + 1)

\* cleanText(text): every citation marker is removed
cleanText(text) == CleanFrom(text, 1)

\* mutant: every text part of the delta is relayed, not only the first part
DeltaChunksAllParts(content) ==
    LET texts == SelectSeq(content, LAMBDA part : part.type = "text" /\ part.hasValue
                                                   /\ part.value # <<>>)
    IN [k \in 1..Len(texts) |-> Encode(texts[k].value)]

\* mutant: the first content part is relayed whatever its type and whether
\* or not it has a text value
DeltaChunksAnyFirstPart(content) ==
    IF Len(content) > 0 THEN <<Encode(content[1].value)>> ELSE <<>>

\* mutant: a first text part is relayed even when its value is the empty
\* string
DeltaChunksEmptyToo(content) ==
    IF Len(content) > 0 /\ content[1].type = "text" /\ content[1].hasValue
    THEN <<Encode(content[1].value)>>
    ELSE <<>>

\* the chunks consumeStream enqueues for one thread.message.delta event
DeltaChunks(content) ==
    IF Len(content) > 0 /\ content[1].type = "text"
           /\ content[1].hasValue /\ content[1].value # <<>>
    THEN <<Encode(content[1].value)>>
    ELSE <<>>

\* result.organic of a provider answer for query q
Organic(q, outcome) ==
    IF outcome.kind = "ok"
    THEN [k \in 1..outcome.n |->
            [title |-> <<"title", q, k>>, link |-> <<"link", q, k>>,
             snippet |-> <<"snippet", q, k>>]]
    ELSE <<>>

FormatItem(item) ==
    <<Lit("Title: "), item.title, Lit("\nLink: "), item.link,
      Lit("\nSnippet: "), item.snippet>>

RECURSIVE JoinBlocks(_)
JoinBlocks(blocks) ==
    IF Len(blocks) = 0 THEN <<>>
    ELSE IF Len(blocks) = 1 THEN blocks[1]
    ELSE blocks[1] \o <<Lit("\n\n")>> \o JoinBlocks(Tail(blocks))

NoResults ==
    <<Lit("No results found on lovdata.no or SNL.no or wikipedia.org for this query.")>>

NoResultsWeb ==
    <<Lit("No results found on jusinfo.no or lovdata.no for this query.")>>

\* mutant: a separator follows every block, the last one too
FormatResultsTrailing(results) ==
    IF Len(results) > 0
    THEN JoinBlocks([k \in 1..Len(results) |-> FormatItem(results[k])]) \o <<Lit("\n\n")>>
    ELSE NoResults

\* searchLegalSources of src/web/lib/serper.ts, after performSearch has
\* returned results
FormatResultsWeb(results) ==
    IF Len(results) > 0
    THEN JoinBlocks([k \in 1..Len(results) |-> FormatItem(results[k])])
    ELSE NoResultsWeb

\* searchLegalSources, after performSearch has returned results
FormatResults(results) ==
    IF Len(results) > 0
    THEN JoinBlocks([k \in 1..Len(results) |-> FormatItem(results[k])])
    ELSE NoResults

Fulfilled(id, text) == [callId |-> id, query |-> "", result |-> text, state |-> "fulfilled"]

Rejected(id) == [callId |-> id, query |-> "", result |-> <<>>, state |-> "rejected"]

Pending(id, q) == [callId |-> id, query |-> q, result |-> <<>>, state |-> "pending"]

\* mutant: the tool name is not looked at, every call is run as a search
DispatchStartAnyName(tc, key) ==
    LET args == JSONParse(tc.arguments)
    IN IF ~args.ok THEN Fulfilled(tc.callId, <<Lit("Error: Invalid arguments.")>>)
       ELSE IF args.isNull THEN Rejected(tc.callId)
       ELSE IF ~key THEN Fulfilled(tc.callId, FormatResults(<<>>))
       ELSE Pending(tc.callId, args.query)

\* one callback of toolCalls.map, run up to its first suspension on the
\* provider: the promise it has made by then
DispatchStart(tc, key) ==
    IF tc.name = "search_legal"
    THEN LET args == JSONParse(tc.arguments)
         IN IF ~args.ok THEN Fulfilled(tc.callId, <<Lit("Error: Invalid arguments.")>>)
            ELSE IF args.isNull THEN Rejected(tc.callId)
            ELSE IF ~key THEN Fulfilled(tc.callId, FormatResults(<<>>))
            ELSE Pending(tc.callId, args.query)
    ELSE Fulfilled(tc.callId, <<Lit("Error: Unknown tool.")>>)

\* the same callback once the provider has answered
DispatchFinish(p, outcome) ==
    IF outcome.kind \in {"nonOk", "networkFail"}
    THEN Rejected(p.callId)
    ELSE Fulfilled(p.callId, FormatResults(Organic(p.query, outcome)))

\* mutant: the first output to arrive resumes the run (Promise.race)
SomeFulfilled(promises) == \E i \in 1..Len(promises) : promises[i].state = "fulfilled"

\* Promise.all is fulfilled
AllFulfilled(promises) == \A i \in 1..Len(promises) : promises[i].state = "fulfilled"

\* Promise.all is rejected
SomeRejected(promises) == \E i \in 1..Len(promises) : promises[i].state = "rejected"

\* mutant: the outputs are filed under the call ids in reverse order
ToolOutputsReversed(promises) ==
    [i \in 1..Len(promises) |->
        [tool_call_id |-> promises[i].callId,
         output |-> promises[Len(promises) + 1 - i].result]]

\* mutant: every output is filed under the id of the first call
ToolOutputsSameId(promises) ==
    [i \in 1..Len(promises) |-> [tool_call_id |-> promises[1].callId, output |-> promises[i].result]]

\* the array Promise.all resolves to
ToolOutputs(promises) ==
    [i \in 1..Len(promises) |-> [tool_call_id |-> promises[i].callId, output |-> promises[i].result]]


\* ------------------------------------------------------------------ state
VARIABLES
    assistantId,     \* process.env.ASSISTANT_ID is set
    apiKey,          \* process.env.SERPER_API_KEY is set
    nThreads,        \* threads the conversation service has created: 1..nThreads
    clientThread,    \* threadId state of the chat client, 0 for null
    resendsOnly,     \* every request so far carried the client's threadId
    turn,            \* chat requests made so far
    request,         \* body of the latest request
    response,        \* what POST returned for it
    pc,              \* "idle", "consume" (awaiting an event), "dispatch" (awaiting Promise.all),
                     \* "resume" (submitToolOutputsStream has returned the new stream)
    stack,           \* streams of the nested consumeStream calls, innermost last
    nStreams,        \* event streams opened in this turn
    reads,           \* events read in this turn
    received,        \* the delta events read in this turn, in order of receipt
    enqueued,        \* chunks passed to controller.enqueue in this turn
    streamState,     \* response stream: "none", "open", "closed", "errored", "cancelled"
    failedDepth,     \* 0, or the nesting depth of the consumeStream whose stream raised an error
    batch,           \* the tool calls of the requires-action event being handled, their
                     \* promises and the order in which the provider answered
    nToolEvents,     \* requires-action events with tool calls read in this turn
    submission,      \* the submitToolOutputsStream call whose stream is not consumed yet
    nResumptions,    \* submitToolOutputsStream calls of this turn
    searches,        \* requests sent to the search provider for the batch
    search,          \* the latest direct search request or searchLegalSources call
    input,           \* input state of the chat client
    isLoading,       \* isLoading state of the chat client
    rendered,        \* the state the latest render has shown to handleSubmit
    inFlight,        \* the chat requests of the client whose handleSubmit has not finished
    lastHeader,      \* the x-thread-id the client has received most recently, 0 for none
    messages,        \* messages state of the chat client
    reading,         \* per request whose body is being read: assistantMessage, the bytes
                     \* the TextDecoder keeps, and, for the claims, the bytes read so far
                     \* and the place of its placeholder in messages
    nChunks,         \* chunks read so far
    nErrors          \* console.error calls of handleSubmit so far

envVars == <<assistantId, apiKey>>

sessionVars == <<nThreads, clientThread, resendsOnly, turn, request, response>>

streamVars == <<pc, stack, nStreams, reads, received, enqueued, streamState, failedDepth>>

toolVars == <<batch, nToolEvents, submission, nResumptions, searches>>

searchVars == <<search>>

chatVars == <<messages, reading, nChunks, nErrors>>

clientVars == <<input, isLoading, rendered, inFlight, lastHeader, chatVars>>

vars == <<envVars, sessionVars, streamVars, toolVars, searchVars, clientVars>>

NoBatch == [run |-> 0, calls |-> <<>>, out |-> <<>>, order |-> <<>>]

NoResumption == [run |-> 0, thread |-> 0, tool_outputs |-> <<>>]

NoRequest == [message |-> "", threadId |-> 0]

NoResponse ==
    [status |-> 0, created |-> 0, appendedTo |-> 0, runThread |-> 0, header |-> 0,
     error |-> ""]

\* a direct search request (op "search") or a searchLegalSources call (op
\* "tool") made with library l: its phase ("idle", "fetching", "done",
\* "thrown"), the requests sent to the provider, what the provider did, the
\* list performSearch returned, the text searchLegalSources returned, and
\* the status and error field of the endpoint's response
SearchState(op, l, q, phase, fetches, provider, results, text, status, error) ==
    [text |-> text, query |-> q, results |-> results, status |-> status, error |-> error,
     op |-> op, phase |-> phase, fetches |-> fetches, provider |-> provider, lib |-> l]

NoSearch == SearchState("none", "part_000", "", "idle", 0, "none", <<>>, <<>>, 0, "")

Init ==
    /\ assistantId \in BOOLEAN
    /\ apiKey \in BOOLEAN
    /\ nThreads = 0
    /\ clientThread = 0
    /\ resendsOnly = TRUE
    /\ turn = 0
    /\ request = NoRequest
    /\ response = NoResponse
    /\ pc = "idle"
    /\ stack = <<>>
    /\ nStreams = 0
    /\ reads = 0
    /\ received = <<>>
    /\ enqueued = <<>>
    /\ streamState = "none"
    /\ failedDepth = 0
    /\ batch = NoBatch
    /\ nToolEvents = 0
    /\ submission = NoResumption
    /\ nResumptions = 0
    /\ searches = 0
    /\ search = NoSearch
    /\ input = ""
    /\ isLoading = FALSE
    /\ rendered = [input |-> "", isLoading |-> FALSE, threadId |-> 0]
    /\ inFlight = {}
    /\ lastHeader = 0
    /\ messages = <<>>
    /\ reading = <<>>
    /\ nChunks = 0
    /\ nErrors = 0

\* ------------------------------------------------------------------- POST
\* NextResponse.json({ error }, { status }): a response without stream
ErrorResponse(status, created, error) ==
    [status |-> status, created |-> created, appendedTo |-> 0, runThread |-> 0, header |-> 0,
     error |-> error]

\* the message of an error thrown by the conversation service
ServiceError == "service error"

\* mutant: a thread is created for every request, the threadId of the
\* request is not used
PostOutcomeAlwaysCreates(message, existingThreadId, createOk, appendOk) ==
    IF message = "" THEN ErrorResponse(400, 0, "Message is required")
    ELSE IF ~assistantId THEN ErrorResponse(500, 0, "Assistant ID not configured")
    ELSE IF ~createOk THEN ErrorResponse(500, 0, ServiceError)
    ELSE IF ~appendOk THEN ErrorResponse(500, nThreads + 1, ServiceError)
    ELSE [status |-> 200, created |-> nThreads + 1, appendedTo |-> nThreads + 1,
          runThread |-> nThreads + 1, header |-> nThreads + 1, error |-> ""]

\* mutant: the message is looked at only after the thread is there
PostOutcomeMessageLate(message, existingThreadId, createOk, appendOk) ==
    IF ~assistantId THEN ErrorResponse(500, 0, "Assistant ID not configured")
    ELSE LET creates == existingThreadId = 0
             threadId == IF creates THEN nThreads + 1 ELSE existingThreadId
         IN IF creates /\ ~createOk THEN ErrorResponse(500, 0, ServiceError)
            ELSE IF message = ""
                 THEN ErrorResponse(400, IF creates THEN threadId ELSE 0, "Message is required")
            ELSE IF ~appendOk
                 THEN ErrorResponse(500, IF creates THEN threadId ELSE 0, ServiceError)
            ELSE [status |-> 200, created |-> IF creates THEN threadId ELSE 0,
                  appendedTo |-> threadId, runThread |-> threadId,
                  header |-> threadId, error |-> ""]

\* mutant: the assistant id is looked at only when the run is started
PostOutcomeAssistantLate(message, existingThreadId, createOk, appendOk) ==
    IF message = "" THEN ErrorResponse(400, 0, "Message is required")
    ELSE LET creates == existingThreadId = 0
             threadId == IF creates THEN nThreads + 1 ELSE existingThreadId
         IN IF creates /\ ~createOk THEN ErrorResponse(500, 0, ServiceError)
            ELSE IF ~appendOk
                 THEN ErrorResponse(500, IF creates THEN threadId ELSE 0, ServiceError)
            ELSE IF ~assistantId
                 THEN [status |-> 500, created |-> IF creates THEN threadId ELSE 0,
                       appendedTo |-> threadId, runThread |-> 0, header |-> 0,
                       error |-> "Assistant ID not configured"]
            ELSE [status |-> 200, created |-> IF creates THEN threadId ELSE 0,
                  appendedTo |-> threadId, runThread |-> threadId,
                  header |-> threadId, error |-> ""]

\* mutant: when the append fails, the answer still carries the thread id
PostOutcomeLeaksThread(message, existingThreadId, createOk, appendOk) ==
    IF message = "" THEN ErrorResponse(400, 0, "Message is required")
    ELSE IF ~assistantId THEN ErrorResponse(500, 0, "Assistant ID not configured")
    ELSE LET creates == existingThreadId = 0
             threadId == IF creates THEN nThreads + 1 ELSE existingThreadId
         IN IF creates /\ ~createOk THEN ErrorResponse(500, 0, ServiceError)
            ELSE IF ~appendOk
                 THEN [status |-> 500, created |-> IF creates THEN threadId ELSE 0,
                       appendedTo |-> 0, runThread |-> 0, header |-> threadId,
                       error |-> ServiceError]
            ELSE [status |-> 200, created |-> IF creates THEN threadId ELSE 0,
                  appendedTo |-> threadId, runThread |-> threadId,
                  header |-> threadId, error |-> ""]

\* POST up to its return: the status, the thread it created (0: none), the
\* thread the message was appended to, the thread the run was started on,
\* the x-thread-id header and the error field of the body
PostOutcome(message, existingThreadId, createOk, appendOk) ==
    IF message = "" THEN ErrorResponse(400, 0, "Message is required")
    ELSE IF ~assistantId THEN ErrorResponse(500, 0, "Assistant ID not configured")
    ELSE LET creates == existingThreadId = 0
             threadId == IF creates THEN nThreads + 1 ELSE existingThreadId
         IN IF creates /\ ~createOk THEN ErrorResponse(500, 0, ServiceError)
            ELSE IF ~appendOk
                 THEN ErrorResponse(500, IF creates THEN threadId ELSE 0, ServiceError)
            ELSE [status |-> 200, created |-> IF creates THEN threadId ELSE 0,
                  appendedTo |-> threadId, runThread |-> threadId,
                  header |-> threadId, error |-> ""]

\* handleSubmit: the threadId state after the response headers are read
ClientThreadAfter(resp) ==
    IF resp.status = 200 /\ resp.header # 0 THEN resp.header ELSE clientThread

\* One chat request: POST runs to its return; with a streaming response,
\* start() has called consumeStream, which awaits the first event.
\* createOk, appendOk: whether threads.create and messages.create succeed;
\* the service refuses a message for a thread it does not know.
POST(message, existingThreadId, createOk, appendOk) ==
    /\ pc = "idle"
    /\ (existingThreadId > nThreads) => ~appendOk
    /\ LET resp == PostOutcome(message, existingThreadId, createOk, appendOk)
       IN /\ response' = resp
          /\ nThreads' = IF resp.created # 0 THEN resp.created ELSE nThreads
          /\ clientThread' = ClientThreadAfter(resp)
          /\ pc' = IF resp.status = 200 THEN "consume" ELSE "idle"
          /\ stack' = IF resp.status = 200 THEN <<1>> ELSE <<>>
          /\ nStreams' = IF resp.status = 200 THEN 1 ELSE 0
          /\ streamState' = IF resp.status = 200 THEN "open" ELSE "none"
    /\ request' = [message |-> message, threadId |-> existingThreadId]
    /\ resendsOnly' = (resendsOnly /\ existingThreadId = clientThread)
    /\ turn' = turn + 1
    /\ reads' = 0
    /\ received' = <<>>
    /\ enqueued' = <<>>
    /\ failedDepth' = 0
    /\ batch' = NoBatch
    /\ nToolEvents' = 0
    /\ submission' = NoResumption
    /\ nResumptions' = 0
    /\ searches' = 0
    /\ UNCHANGED <<envVars, searchVars, clientVars>>

\* ---------------------------------------------------------- consumeStream
Top == stack[Len(stack)]

\* the state of the response stream after start() has closed it (s =
\* "closed") or has thrown (s = "errored"): a stream the caller has
\* cancelled stays as it is
StreamStateAfter(s) == IF streamState = "cancelled" THEN "cancelled" ELSE s

\* a thread.message.delta event arrives on the stream being read; on a
\* cancelled response stream controller.enqueue throws, which leaves every
\* consumeStream frame and start()
ReadDelta(content) ==
    /\ pc = "consume"
    /\ reads < MaxEvents
    /\ reads' = reads + 1
    /\ received' = Append(received, [content |-> content, stream |-> Top])
    /\ IF streamState = "cancelled" /\ DeltaChunks(content) # <<>>
       THEN pc' = "idle" /\ stack' = <<>> /\ enqueued' = enqueued
       ELSE enqueued' = enqueued \o DeltaChunks(content) /\ UNCHANGED <<pc, stack>>
    /\ UNCHANGED <<envVars, searchVars, clientVars, sessionVars, toolVars, nStreams, streamState,
                   failedDepth>>

\* mutant: an event of another kind ends the loop over the stream
ReadOtherStops ==
    /\ pc = "consume"
    /\ reads < MaxEvents
    /\ reads' = reads + 1
    /\ stack' = SubSeq(stack, 1, Len(stack) - 1)
    /\ IF Len(stack) = 1
       THEN pc' = "idle" /\ streamState' = StreamStateAfter("closed")
       ELSE UNCHANGED <<pc, streamState>>
    /\ UNCHANGED <<envVars, searchVars, clientVars, sessionVars, toolVars, nStreams, received,
                   enqueued, failedDepth>>

\* an event that is neither a delta nor requires_action arrives
ReadOther ==
    /\ pc = "consume"
    /\ reads < MaxEvents
    /\ reads' = reads + 1
    /\ UNCHANGED <<envVars, searchVars, clientVars, sessionVars, toolVars, pc, stack, nStreams, received,
                   enqueued, streamState, failedDepth>>

\* a thread.run.requires_action event without tool calls arrives
ReadActionNoCalls(runId) ==
    /\ pc = "consume"
    /\ reads < MaxEvents
    /\ reads' = reads + 1
    /\ UNCHANGED <<envVars, searchVars, clientVars, sessionVars, toolVars, pc, stack, nStreams, received,
                   enqueued, streamState, failedDepth>>

\* the promises toolCalls.map has made when Promise.all is awaited
StartDispatches(toolCalls) ==
    [i \in 1..Len(toolCalls) |-> DispatchStart(toolCalls[i], apiKey)]

PendingCount(promises) == Cardinality({i \in 1..Len(promises) : promises[i].state = "pending"})

\* a thread.run.requires_action event with tool calls arrives: every call
\* is dispatched and consumeStream awaits Promise.all
ReadRequiresAction(runId, toolCalls) ==
    /\ pc = "consume"
    /\ reads < MaxEvents
    /\ nToolEvents < MaxRounds
    /\ reads' = reads + 1
    /\ nToolEvents' = nToolEvents + 1
    /\ batch' = [run |-> runId, calls |-> toolCalls, out |-> StartDispatches(toolCalls),
                 order |-> <<>>]
    /\ searches' = PendingCount(StartDispatches(toolCalls))
    /\ pc' = "dispatch"
    /\ UNCHANGED <<envVars, searchVars, clientVars, sessionVars, stack, nStreams, received, enqueued,
                   streamState, failedDepth, submission, nResumptions>>

\* the search provider answers the request of call i while Promise.all is
\* awaited; a rejected promise rejects Promise.all, and the await resumes
\* before the next answer is handled
FetchReturn(i, outcome) ==
    /\ pc = "dispatch"
    /\ ~SomeRejected(batch.out)
    /\ i \in 1..Len(batch.out)
    /\ batch.out[i].state = "pending"
    /\ batch' = [batch EXCEPT !.out[i] = DispatchFinish(batch.out[i], outcome),
                              !.order = Append(batch.order, i)]
    /\ UNCHANGED <<envVars, searchVars, clientVars, sessionVars, streamVars, nToolEvents, submission,
                   nResumptions, searches>>

\* the arguments of submitToolOutputsStream
Resumption(threadId, b) ==
    [run |-> b.run, thread |-> threadId, tool_outputs |-> ToolOutputs(b.out)]

\* mutant: the chunks enqueued so far are lost when the run is resumed
SubmitDropsChunks ==
    /\ pc = "dispatch"
    /\ AllFulfilled(batch.out)
    /\ submission' = Resumption(response.runThread, batch)
    /\ nResumptions' = nResumptions + 1
    /\ nStreams' = nStreams + 1
    /\ pc' = "resume"
    /\ enqueued' = <<>>
    /\ UNCHANGED <<envVars, searchVars, clientVars, sessionVars, stack, reads, received, streamState,
                   failedDepth, batch, nToolEvents, searches>>

\* Promise.all is fulfilled: the outputs are submitted, which opens the
\* stream of the resumed run
Submit ==
    /\ pc = "dispatch"
    /\ AllFulfilled(batch.out)
    /\ submission' = Resumption(response.runThread, batch)
    /\ nResumptions' = nResumptions + 1
    /\ nStreams' = nStreams + 1
    /\ pc' = "resume"
    /\ UNCHANGED <<envVars, searchVars, clientVars, sessionVars, stack, reads, received, enqueued, streamState,
                   failedDepth, batch, nToolEvents, searches>>

\* consumeStream is called on the new stream and awaits its first event;
\* the handling of the requires-action event has nothing left to do but to
\* await that call
ConsumeNested ==
    /\ pc = "resume"
    /\ stack' = Append(stack, nStreams)
    /\ pc' = "consume"
    /\ batch' = NoBatch
    /\ submission' = NoResumption
    /\ searches' = 0
    /\ UNCHANGED <<envVars, searchVars, clientVars, sessionVars, nStreams, reads, received, enqueued,
                   streamState, failedDepth, nToolEvents, nResumptions>>

\* Promise.all is rejected: the exception leaves every consumeStream frame
\* and start(), controller.close() is not reached
BatchRejected ==
    /\ pc = "dispatch"
    /\ SomeRejected(batch.out)
    /\ pc' = "idle"
    /\ stack' = <<>>
    /\ streamState' = StreamStateAfter("errored")
    /\ UNCHANGED <<envVars, searchVars, clientVars, sessionVars, toolVars, nStreams, reads, received, enqueued,
                   failedDepth>>

\* mutant: the response stream is closed as soon as any stream ends, also a
\* resumed one below which consumeStream frames still read
StreamEndClosesEarly ==
    /\ pc = "consume"
    /\ stack' = SubSeq(stack, 1, Len(stack) - 1)
    /\ streamState' = StreamStateAfter("closed")
    /\ pc' = IF Len(stack) = 1 THEN "idle" ELSE pc
    /\ UNCHANGED <<envVars, searchVars, clientVars, sessionVars, toolVars, nStreams, reads, received, enqueued,
                   failedDepth>>

\* the stream being read ends: the innermost consumeStream returns; the
\* outermost one returns to start(), which closes the response stream
StreamEnd ==
    /\ pc = "consume"
    /\ stack' = SubSeq(stack, 1, Len(stack) - 1)
    /\ IF Len(stack) = 1
       THEN pc' = "idle" /\ streamState' = StreamStateAfter("closed")
       ELSE UNCHANGED <<pc, streamState>>
    /\ UNCHANGED <<envVars, searchVars, clientVars, sessionVars, toolVars, nStreams, reads, received, enqueued,
                   failedDepth>>

\* mutant: the error is caught in the consumeStream that reads the stream,
\* which returns normally to the frame that called it
StreamErrorCaught ==
    /\ pc = "consume"
    /\ stack' = SubSeq(stack, 1, Len(stack) - 1)
    /\ IF Len(stack) = 1
       THEN pc' = "idle" /\ streamState' = "errored"
       ELSE UNCHANGED <<pc, streamState>>
    /\ failedDepth' = Len(stack)
    /\ UNCHANGED <<envVars, searchVars, clientVars, sessionVars, toolVars, nStreams, reads, received, enqueued>>

\* mutant: an error of the stream replaces the response by the JSON error
StreamErrorAnswers500 ==
    /\ pc = "consume"
    /\ pc' = "idle"
    /\ stack' = <<>>
    /\ streamState' = StreamStateAfter("errored")
    /\ failedDepth' = Len(stack)
    /\ response' = ErrorResponse(500, 0, ServiceError)
    /\ UNCHANGED <<envVars, searchVars, clientVars, toolVars, nStreams, reads, received, enqueued,
                   nThreads, clientThread, resendsOnly, turn, request>>

\* the stream being read raises an error: it leaves every consumeStream
\* frame and start(), controller.close() is not reached
StreamError ==
    /\ pc = "consume"
    /\ pc' = "idle"
    /\ stack' = <<>>
    /\ streamState' = StreamStateAfter("errored")
    /\ failedDepth' = Len(stack)
    /\ UNCHANGED <<envVars, searchVars, clientVars, sessionVars, toolVars, nStreams, reads, received, enqueued>>

\* the caller disconnects: the response stream is cancelled; the underlying
\* source given to ReadableStream has no cancel callback
Cancel ==
    /\ streamState = "open"
    /\ streamState' = "cancelled"
    /\ UNCHANGED <<envVars, searchVars, clientVars, sessionVars, toolVars, pc, stack, nStreams, reads,
                   received, enqueued, failedDepth>>

\* ----------------------------------------------------------------- search
\* mutant: the provider is asked without looking at the credential
PerformSearchStartAlwaysFetches(key) == "fetch"

\* performSearch up to its first suspension: without credential it returns
\* the empty list, with one it sends the request to the provider
PerformSearchStart(key) == IF ~key THEN "empty" ELSE "fetch"

\* performSearch of library l once the provider has answered: whether it
\* threw, the list it returned and the message of the error
PerformSearchEnd(l, q, outcome) ==
    IF outcome.kind \in {"nonOk", "networkFail"}
    THEN IF l = "web"
         THEN [results |-> <<>>, error |-> "", threw |-> FALSE]
         ELSE [results |-> <<>>,
               error |-> IF outcome.kind = "nonOk" THEN "Serper API error" ELSE "fetch failed",
               threw |-> TRUE]
    ELSE [results |-> Organic(q, outcome), error |-> "", threw |-> FALSE]

\* searchLegalSources of library l, after performSearch has returned results
FormatResultsOf(l, results) ==
    IF l = "web" THEN FormatResultsWeb(results) ELSE FormatResults(results)

\* POST /api/search with body { query: q }
SearchPOST(l, q) ==
    /\ search.phase # "fetching"
    /\ search' =
          IF q = ""
          THEN SearchState("search", l, q, "done", 0, "none", <<>>, <<>>, 400,
                           "Query is required")
          ELSE IF PerformSearchStart(apiKey) = "empty"
          THEN SearchState("search", l, q, "done", 0, "none", <<>>, <<>>, 200, "")
          ELSE SearchState("search", l, q, "fetching", 1, "none", <<>>, <<>>, 0, "")
    /\ UNCHANGED <<envVars, sessionVars, streamVars, toolVars, clientVars>>

\* searchLegalSources(q), as the chat endpoint calls it for a tool call
SearchLegalSources(l, q) ==
    /\ search.phase # "fetching"
    /\ search' =
          IF PerformSearchStart(apiKey) = "empty"
          THEN SearchState("tool", l, q, "done", 0, "none", <<>>,
                           FormatResultsOf(l, <<>>), 0, "")
          ELSE SearchState("tool", l, q, "fetching", 1, "none", <<>>, <<>>, 0, "")
    /\ UNCHANGED <<envVars, sessionVars, streamVars, toolVars, clientVars>>

\* the provider answers, or the request to it fails: performSearch ends,
\* and with it the endpoint's handler or searchLegalSources
ProviderAnswers(outcome) ==
    /\ search.phase = "fetching"
    /\ LET end == PerformSearchEnd(search.lib, search.query, outcome)
       IN search' =
            IF search.op = "search"
            THEN IF end.threw
                 THEN SearchState("search", search.lib, search.query, "done",
                                  search.fetches, outcome.kind, <<>>, <<>>, 500, end.error)
                 ELSE SearchState("search", search.lib, search.query, "done",
                                  search.fetches, outcome.kind, end.results, <<>>, 200, "")
            ELSE IF end.threw
                 THEN SearchState("tool", search.lib, search.query, "thrown",
                                  search.fetches, outcome.kind, <<>>, <<>>, 0, end.error)
                 ELSE SearchState("tool", search.lib, search.query, "done",
                                  search.fetches, outcome.kind, end.results,
                                  FormatResultsOf(search.lib, end.results), 0, "")
    /\ UNCHANGED <<envVars, sessionVars, streamVars, toolVars, clientVars>>

\* ------------------------------------------------------------ chat client
\* the characters of a message the user has typed
TextOf(message) ==
    IF message = "" THEN <<>>
    ELSE <<72, 118, 97, 32, 115, 105, 101, 114, 32, 101, 107, 116, 101, 115, 107, 97, 112,
           115, 108, 111, 118, 101, 110, 32, 111, 109, 32, 103, 106, 101, 108, 100, 63>>

\* 'Beklager, det oppstod en feil. Vennligst prøv igjen.'
Apology ==
    <<66, 101, 107, 108, 97, 103, 101, 114, 44, 32, 100, 101, 116, 32, 111, 112, 112, 115,
      116, 111, 100, 32, 101, 110, 32, 102, 101, 105, 108, 46, 32, 86, 101, 110, 110, 108,
      105, 103, 115, 116, 32, 112, 114, 248, 118, 32, 105, 103, 106, 101, 110, 46>>

UserMessage(message) == [content |-> TextOf(message), role |-> "user"]

AssistantMessage(text) == [content |-> text, role |-> "assistant"]

ApologyMessage == AssistantMessage(Apology)

\* the locals of a handleSubmit that reads a body
Reader(text, rest, bytes, slot) ==
    [bytes |-> bytes, slot |-> slot, assistantMessage |-> text, decoder |-> rest]

Without(f, n) == [k \in DOMAIN f \ {n} |-> f[k]]

\* the text "【4:0†source】", a citation marker
Marker == <<12304, 52, 58, 48>> \o MarkerTail

\* the body of a streaming response: the bytes of "a【4:0†source】"
Body == Encode(<<97>> \o Marker)

\* the sizes of the chunks reader.read() gives: 8 cuts the body inside the
\* marker and inside its character U+2020
ChunkSizes == {8, Len(Body)}

\* the next k bytes of the body that chat request r has not read yet
NextChunk(r, k) ==
    LET at == Len(reading[r.n].bytes)
        to == IF at + k < Len(Body) THEN at + k ELSE Len(Body)
    IN SubSeq(Body, at + 1, to)

\* the state of the component that a render would show to its handlers
Current == [input |-> input, isLoading |-> isLoading, threadId |-> clientThread]

\* React renders the component: handleSubmit and the button see the state
Render ==
    /\ rendered # Current
    /\ rendered' = Current
    /\ UNCHANGED <<envVars, sessionVars, streamVars, toolVars, searchVars, input, isLoading,
                   inFlight, lastHeader, chatVars>>

\* onChange of the textarea
Type(text) ==
    /\ input' = text
    /\ UNCHANGED <<envVars, sessionVars, streamVars, toolVars, searchVars, isLoading,
                   rendered, inFlight, lastHeader, chatVars>>

\* handleSubmit is invoked, by the button or by Enter, and runs up to
\* await fetch: it returns at once when the input it sees is empty or the
\* isLoading it sees is set; otherwise it appends the user message and
\* sends a chat request
HandleSubmit ==
    /\ turn < MaxSubmits
    /\ rendered.input # ""
    /\ ~rendered.isLoading
    /\ input' = ""
    /\ isLoading' = TRUE
    /\ turn' = turn + 1
    /\ request' = [message |-> rendered.input, threadId |-> rendered.threadId]
    /\ inFlight' = inFlight \cup {[n |-> turn + 1, message |-> rendered.input,
                                   threadId |-> rendered.threadId, phase |-> "sent"]}
    /\ messages' = Append(messages, UserMessage(rendered.input))
    /\ UNCHANGED <<envVars, streamVars, toolVars, searchVars, nThreads, clientThread,
                   resendsOnly, response, rendered, lastHeader, reading, nChunks, nErrors>>

\* handleSubmit is invoked while the input it sees is empty or the
\* isLoading it sees is set: it returns at once
HandleSubmitReturns ==
    /\ rendered.input = "" \/ rendered.isLoading
    /\ UNCHANGED vars

\* mutant: a response without body makes handleSubmit return without
\* passing through finally
ResponseArrivesNoFinally(r, createOk, appendOk, hasBody) ==
    /\ r \in inFlight
    /\ r.phase = "sent"
    /\ rendered = Current
    /\ (r.threadId > nThreads) => ~appendOk
    /\ LET resp == PostOutcome(r.message, r.threadId, createOk, appendOk)
       IN /\ response' = resp
          /\ nThreads' = IF resp.created # 0 THEN resp.created ELSE nThreads
          /\ clientThread' = ClientThreadAfter(resp)
          /\ lastHeader' = IF resp.status = 200 THEN resp.header ELSE lastHeader
          /\ IF resp.status # 200
             THEN /\ inFlight' = inFlight \ {r}
                  /\ isLoading' = FALSE
                  /\ messages' = Append(messages, ApologyMessage)
                  /\ nErrors' = nErrors + 1
                  /\ UNCHANGED reading
             ELSE IF ~hasBody
             THEN /\ inFlight' = inFlight \ {r}
                  /\ UNCHANGED <<isLoading, messages, nErrors, reading>>
             ELSE /\ inFlight' = (inFlight \ {r}) \cup {[r EXCEPT !.phase = "streaming"]}
                  /\ messages' = Append(messages, AssistantMessage(<<>>))
                  /\ reading' = reading @@ (r.n :> Reader(<<>>, <<>>, <<>>, Len(messages) + 1))
                  /\ UNCHANGED <<isLoading, nErrors>>
    /\ UNCHANGED <<envVars, streamVars, toolVars, searchVars, resendsOnly, turn, request,
                   input, rendered, nChunks>>

\* the response to chat request r arrives, after the pending render. A
\* response that is not ok ends handleSubmit through catch, which appends
\* the apology, and finally. Of a response that is ok the x-thread-id header
\* is stored; without body handleSubmit returns through finally, with one
\* it appends the placeholder and awaits the first read
ResponseArrives(r, createOk, appendOk, hasBody) ==
    /\ r \in inFlight
    /\ r.phase = "sent"
    /\ rendered = Current
    /\ (r.threadId > nThreads) => ~appendOk
    /\ LET resp == PostOutcome(r.message, r.threadId, createOk, appendOk)
       IN /\ response' = resp
          /\ nThreads' = IF resp.created # 0 THEN resp.created ELSE nThreads
          /\ clientThread' = ClientThreadAfter(resp)
          /\ lastHeader' = IF resp.status = 200 THEN resp.header ELSE lastHeader
          /\ IF resp.status # 200
             THEN /\ inFlight' = inFlight \ {r}
                  /\ isLoading' = FALSE
                  /\ messages' = Append(messages, ApologyMessage)
                  /\ nErrors' = nErrors + 1
                  /\ UNCHANGED reading
             ELSE IF ~hasBody
             THEN /\ inFlight' = inFlight \ {r}
                  /\ isLoading' = FALSE
                  /\ UNCHANGED <<messages, nErrors, reading>>
             ELSE /\ inFlight' = (inFlight \ {r}) \cup {[r EXCEPT !.phase = "streaming"]}
                  /\ messages' = Append(messages, AssistantMessage(<<>>))
                  /\ reading' = reading @@ (r.n :> Reader(<<>>, <<>>, <<>>, Len(messages) + 1))
                  /\ UNCHANGED <<isLoading, nErrors>>
    /\ UNCHANGED <<envVars, streamVars, toolVars, searchVars, resendsOnly, turn, request,
                   input, rendered, nChunks>>

\* reader.read() of chat request r gives a chunk: it is decoded and added to
\* assistantMessage, which replaces the content of the last message
ChunkArrives(r, value) ==
    /\ r \in inFlight
    /\ r.phase = "streaming"
    /\ rendered = Current
    /\ nChunks < MaxChunks
    /\ nChunks' = nChunks + 1
    /\ LET now == reading[r.n]
           chunk == DecodeChunk(now.decoder, value)
           text == now.assistantMessage \o chunk.text
       IN /\ reading' = [reading EXCEPT ![r.n] =
                            Reader(text, chunk.rest, now.bytes \o value, now.slot)]
          /\ messages' = [messages EXCEPT ![Len(messages)] = AssistantMessage(text)]
    /\ UNCHANGED <<envVars, sessionVars, streamVars, toolVars, searchVars, input, isLoading,
                   rendered, inFlight, lastHeader, nErrors>>

\* reader.read() of chat request r gives done: handleSubmit leaves the loop
\* and ends through finally
BodyEnds(r) ==
    /\ r \in inFlight
    /\ r.phase = "streaming"
    /\ rendered = Current
    /\ inFlight' = inFlight \ {r}
    /\ isLoading' = FALSE
    /\ reading' = Without(reading, r.n)
    /\ UNCHANGED <<envVars, sessionVars, streamVars, toolVars, searchVars, input, rendered,
                   lastHeader, messages, nChunks, nErrors>>

\* reader.read() of chat request r rejects: catch appends the apology and
\* handleSubmit ends through finally
ReadFails(r) ==
    /\ r \in inFlight
    /\ r.phase = "streaming"
    /\ rendered = Current
    /\ inFlight' = inFlight \ {r}
    /\ isLoading' = FALSE
    /\ messages' = Append(messages, ApologyMessage)
    /\ nErrors' = nErrors + 1
    /\ reading' = Without(reading, r.n)
    /\ UNCHANGED <<envVars, sessionVars, streamVars, toolVars, searchVars, input, rendered,
                   lastHeader, nChunks>>

\* --------------------------------------------------------- specifications
AnyRequest ==
    \E m \in Messages, t \in ThreadIds, c \in BOOLEAN, a \in BOOLEAN : POST(m, t, c, a)

\* one chat request and the handling of its run, with every batch of tool
\* calls
Next ==
    \/ turn = 0 /\ AnyRequest
    \/ \E content \in PlainDeltas : ReadDelta(content)
    \/ ReadOther
    \/ \E r \in RunIds : ReadActionNoCalls(r)
    \/ \E r \in RunIds, kinds \in ToolCallLists : ReadRequiresAction(r, WithIds(kinds))
    \/ \E i \in 1..MaxCalls, o \in FewOutcomes : FetchReturn(i, o)
    \/ Submit
    \/ ConsumeNested
    \/ BatchRejected
    \/ StreamEnd
    \/ StreamError

Spec == Init /\ [][Next]_vars

\* one chat request and the handling of its run, with every shape of delta
RelayNext ==
    \/ turn = 0 /\ AnyRequest
    \/ \E content \in DeltaContents : ReadDelta(content)
    \/ ReadOther
    \/ \E r \in RunIds : ReadActionNoCalls(r)
    \/ \E r \in RunIds, kinds \in OneCallLists : ReadRequiresAction(r, WithIds(kinds))
    \/ \E o \in FewOutcomes : FetchReturn(1, o)
    \/ Submit
    \/ ConsumeNested
    \/ BatchRejected
    \/ StreamEnd
    \/ StreamError

RelaySpec == Init /\ [][RelayNext]_vars

\* RelaySpec with the progress the runtime gives: a stream that is awaited
\* ends once it delivers no further event, the provider answers a request,
\* and a continuation that is ready to run runs
RelayFairSpec ==
    /\ RelaySpec
    /\ WF_vars(StreamEnd)
    /\ WF_vars(\E o \in FewOutcomes : FetchReturn(1, o))
    /\ WF_vars(Submit)
    /\ WF_vars(ConsumeNested)
    /\ WF_vars(BatchRejected)

\* one chat request whose run asks for batches of searches, with every
\* answer of the provider
BatchNext ==
    \/ turn = 0 /\ AnyRequest
    \/ \E r \in RunIds, kinds \in SearchCallLists : ReadRequiresAction(r, WithIds(kinds))
    \/ \E i \in 1..MaxCalls, o \in ProviderOutcomes : FetchReturn(i, o)
    \/ Submit
    \/ ConsumeNested
    \/ BatchRejected
    \/ StreamEnd

BatchSpec == Init /\ [][BatchNext]_vars

\* one chat request and the handling of its run, with a caller that may
\* disconnect
CancelNext ==
    \/ turn = 0 /\ AnyRequest
    \/ \E content \in PlainDeltas : ReadDelta(content)
    \/ ReadOther
    \/ \E r \in RunIds : ReadActionNoCalls(r)
    \/ \E r \in RunIds, kinds \in OneCallLists : ReadRequiresAction(r, WithIds(kinds))
    \/ \E o \in FewOutcomes : FetchReturn(1, o)
    \/ Submit
    \/ ConsumeNested
    \/ BatchRejected
    \/ StreamEnd
    \/ StreamError
    \/ Cancel

CancelSpec == Init /\ [][CancelNext]_vars

\* a session of several chat requests whose runs request no tools
SessionNext ==
    \/ turn < MaxTurns /\ AnyRequest
    \/ \E content \in DeltaContents : ReadDelta(content)
    \/ StreamEnd
    \/ StreamError

SessionSpec == Init /\ [][SessionNext]_vars

\* a session of several chat requests whose runs may request a tool call
\* and may fail
TurnsNext ==
    \/ turn < MaxTurns /\ AnyRequest
    \/ \E content \in PlainDeltas : ReadDelta(content)
    \/ \E r \in RunIds, kinds \in OneCallLists : ReadRequiresAction(r, WithIds(kinds))
    \/ \E o \in FewOutcomes : FetchReturn(1, o)
    \/ Submit
    \/ ConsumeNested
    \/ BatchRejected
    \/ StreamEnd
    \/ StreamError

TurnsSpec == Init /\ [][TurnsNext]_vars

\* the chat client and the responses of the chat endpoint to its requests,
\* whose bodies are empty
ClientNext ==
    \/ Render
    \/ \E text \in Messages : Type(text)
    \/ HandleSubmit
    \/ HandleSubmitReturns
    \/ \E r \in inFlight, c \in BOOLEAN, a \in BOOLEAN, b \in BOOLEAN :
          ResponseArrives(r, c, a, b)
    \/ \E r \in inFlight : BodyEnds(r)
    \/ \E r \in inFlight : ReadFails(r)

ClientSpec == Init /\ [][ClientNext]_vars

\* the chat client and the responses of a configured chat endpoint, whose
\* bodies arrive in chunks
ChatInit == Init /\ assistantId /\ apiKey

ChatNext ==
    \/ Render
    \/ \E text \in Messages : Type(text)
    \/ turn < MaxTurns /\ HandleSubmit
    \/ HandleSubmitReturns
    \/ \E r \in inFlight, c \in BOOLEAN, a \in BOOLEAN, b \in BOOLEAN :
          ResponseArrives(r, c, a, b)
    \/ \E r \in inFlight, k \in ChunkSizes :
          /\ r.phase = "streaming"
          /\ NextChunk(r, k) # <<>>
          /\ ChunkArrives(r, NextChunk(r, k))
    \/ \E r \in inFlight : BodyEnds(r)
    \/ \E r \in inFlight : ReadFails(r)

ChatSpec == ChatInit /\ [][ChatNext]_vars

\* the chat client of a user who types a message and submits it, with
\* bodies that arrive in one chunk, and with the progress the runtime gives:
\* a pending render is made, the response to a request arrives, and its
\* body ends or its read fails
LoadingNext ==
    \/ Render
    \/ \E text \in Messages \ {""} : Type(text)
    \/ turn < MaxTurns /\ HandleSubmit
    \/ \E r \in inFlight, c \in BOOLEAN, b \in BOOLEAN : ResponseArrives(r, c, TRUE, b)
    \/ \E r \in inFlight :
          /\ r.phase = "streaming"
          /\ reading[r.n].bytes = <<>>
          /\ ChunkArrives(r, Body)
    \/ \E r \in inFlight : BodyEnds(r)
    \/ \E r \in inFlight : ReadFails(r)

LoadingSpec ==
    /\ ChatInit
    /\ [][LoadingNext]_vars
    /\ WF_vars(Render)
    /\ WF_vars(\E r \in inFlight, c \in BOOLEAN, b \in BOOLEAN : ResponseArrives(r, c, TRUE, b))
    /\ WF_vars(\E r \in inFlight : BodyEnds(r) \/ ReadFails(r))

\* direct search requests and searchLegalSources calls, one after the other
SearchNext ==
    \/ \E l \in Libs, q \in SearchQueries : SearchPOST(l, q)
    \/ \E l \in Libs, q \in SearchQueries : SearchLegalSources(l, q)
    \/ \E o \in ProviderOutcomes : ProviderAnswers(o)

SearchSpec == Init /\ [][SearchNext]_vars

\* ----------------------------------------------------------------- claims
\* the delta has a text fragment: its first content part is a text part
\* with a non-empty value
HasFragment(content) ==
    /\ Len(content) > 0
    /\ content[1].type = "text"
    /\ content[1].hasValue
    /\ content[1].value # <<>>

\* the text fragments of a sequence of received delta events, in order
RECURSIVE Fragments(_)
Fragments(events) ==
    IF events = <<>> THEN <<>>
    ELSE (IF HasFragment(Head(events).content)
          THEN <<Head(events).content[1].value>> ELSE <<>>)
         \o Fragments(Tail(events))

\* the texts of the chunks enqueued so far
DecodedChunks == [i \in 1..Len(enqueued) |-> Decode(enqueued[i])]

Submitted == submission # NoResumption

\* C1: at every point of a run, whatever the number of tool-call rounds, the
\* chunks enqueued so far are the text fragments of the delta events received
\* so far on the initial and on every resumed stream, in order of receipt,
\* none dropped and none duplicated.
C1_DeltasInOrderAcrossResumptions ==
    /\ Len(enqueued) = Len(Fragments(received))
    /\ \A i \in 1..Len(enqueued) : Decode(enqueued[i]) = Fragments(received)[i]

\* C1 witness: two different fragments were relayed, one read from a resumed
\* stream and then one read from the stream that was being read before it
C1_Witness ==
    /\ Len(received) = 2
    /\ nResumptions >= 1
    /\ received[1].stream > received[2].stream
    /\ HasFragment(received[1].content)
    /\ HasFragment(received[2].content)
    /\ received[1].content # received[2].content
    /\ Len(enqueued) = 2

\* C2 (as stated): when a run of N delta events and no other event has
\* ended, exactly N chunks are enqueued, whatever the deltas contain.
C2_Original ==
    (streamState = "closed" /\ reads = Len(received))
        => Len(enqueued) = Len(received)

\* C2 (amended): in a run without tool calls, exactly one chunk is enqueued
\* for each delta event that has a text fragment, the i-th chunk being the
\* text of the i-th such delta; a delta without one adds no chunk.
C2_OneChunkPerTextDelta ==
    nToolEvents = 0 =>
        /\ Len(enqueued) = Cardinality({i \in 1..Len(received) :
                                            HasFragment(received[i].content)})
        /\ DecodedChunks = Fragments(received)

\* C2 witness: a run of three deltas and no tool call has ended, two of the
\* deltas had a fragment and two chunks are enqueued
C2_Witness ==
    /\ streamState = "closed"
    /\ nToolEvents = 0
    /\ Len(received) = 3
    /\ Len(enqueued) = 2

CallIds(calls) == {calls[i].callId : i \in 1..Len(calls)}

OutputIds(outputs) == {outputs[i].tool_call_id : i \in 1..Len(outputs)}

\* C3: the batch passed to submitToolOutputsStream has one entry for each
\* tool call of the requires-action event: as many entries as calls, every
\* call id among them and no id twice.
C3_OneOutputPerCallId ==
    Submitted =>
        /\ Len(submission.tool_outputs) = Len(batch.calls)
        /\ OutputIds(submission.tool_outputs) = CallIds(batch.calls)
        /\ Cardinality(OutputIds(submission.tool_outputs)) = Len(batch.calls)

\* C3 witness: two searches were dispatched, the second call's search
\* finished first, and the batch was submitted
C3_Witness ==
    /\ Submitted
    /\ Len(batch.calls) = 2
    /\ batch.order = <<2, 1>>

InvalidArguments == <<Lit("Error: Invalid arguments.")>>

UnknownTool == <<Lit("Error: Unknown tool.")>>

\* the search_legal calls of the batch whose arguments do not parse
UnparsableCalls ==
    {i \in 1..Len(batch.calls) :
        batch.calls[i].name = "search_legal" /\ ~JSONParse(batch.calls[i].arguments).ok}

\* the calls of the batch for a tool other than search_legal
UnknownCalls == {i \in 1..Len(batch.calls) : batch.calls[i].name # "search_legal"}

OutputFor(i, text) == [tool_call_id |-> batch.calls[i].callId, output |-> text]

\* C4 (as stated): a search_legal call whose arguments do not parse gets the
\* output "Error: Invalid arguments." under its id, every call of the batch
\* is dispatched, and once the dispatches are over the batch has been
\* submitted with all its K entries.
C4_UnparsableArgumentsStillSubmitted ==
    \A i \in UnparsableCalls :
        /\ batch.out[i].state = "fulfilled"
        /\ batch.out[i].result = InvalidArguments
        /\ Len(batch.out) = Len(batch.calls)
        /\ pc # "dispatch" =>
              /\ Submitted
              /\ Len(submission.tool_outputs) = Len(batch.calls)
              /\ submission.tool_outputs[i] = OutputFor(i, InvalidArguments)

\* C5 (as stated): whatever the arguments and whatever the provider does, the
\* dispatch of a call ends in an output and never in an exception, so that no
\* batch is left unsubmitted.
C5_EveryDispatchEndsInOutput ==
    /\ \A i \in 1..Len(batch.out) : batch.out[i].state # "rejected"
    /\ (pc = "idle" /\ turn > 0) => nResumptions = nToolEvents

\* C6: a call for a tool other than search_legal has the output "Error:
\* Unknown tool." under its id from the moment it is dispatched, no search is
\* made or answered for it, the other calls of the batch are dispatched all
\* the same, and a submitted batch holds its entry.
C6_UnknownToolGetsFixedOutput ==
    /\ \A i \in UnknownCalls :
          /\ batch.out[i].state = "fulfilled"
          /\ batch.out[i].callId = batch.calls[i].callId
          /\ batch.out[i].result = UnknownTool
          /\ \A k \in 1..Len(batch.order) : batch.order[k] # i
          /\ Len(batch.out) = Len(batch.calls)
          /\ Submitted =>
                /\ Len(submission.tool_outputs) = Len(batch.calls)
                /\ submission.tool_outputs[i] = OutputFor(i, UnknownTool)
    /\ searches <= Len(batch.calls) - Cardinality(UnknownCalls)

\* C6 witness: a batch of an unknown tool's call and a search was submitted
\* after the search was answered
C6_Witness ==
    /\ Submitted
    /\ Len(batch.calls) = 2
    /\ UnknownCalls = {1}
    /\ batch.order = <<2>>

\* C7: a resumption call is made only when every dispatch of the batch has
\* ended in an output, it carries the outputs of the whole batch, and it is
\* the only one made for that requires-action event.
C7_ResumeOnlyAfterAllDispatches ==
    [][(nResumptions' # nResumptions /\ turn' = turn) =>
          /\ Len(batch.out) = Len(batch.calls)
          /\ \A i \in 1..Len(batch.calls) : batch.out[i].state = "fulfilled"
          /\ Len(submission'.tool_outputs) = Len(batch.calls)
          /\ \A i \in 1..Len(batch.calls) :
                submission'.tool_outputs[i] = OutputFor(i, batch.out[i].result)
          /\ nResumptions' = nResumptions + 1
          /\ nResumptions' <= nToolEvents']_vars

\* C7 witness: the batch was submitted after both of its searches were answered
C7_Witness ==
    /\ Submitted
    /\ Len(batch.calls) = 2
    /\ Len(batch.order) = 2

\* C8 (as stated): a resumption is made against the thread of the run and the
\* run id of the requires-action event, and when the handling of the run is
\* over there has been exactly one resumption for every requires-action event
\* that carried tool calls.
C8_OneResumptionPerToolEvent ==
    /\ Submitted =>
          /\ submission.thread = response.runThread
          /\ submission.run = batch.run
    /\ nResumptions <= nToolEvents
    /\ (pc = "idle" /\ turn > 0) => nResumptions = nToolEvents

\* C9: once a stream has raised an error, at whatever depth, the response
\* stream is errored and not closed, no consumeStream frame is left, and in
\* the rest of the turn no event is read, no stream is opened, no resumption
\* is made and the chunks enqueued before the error stay as they are.
C9_StreamErrorEndsTheRun ==
    /\ [](failedDepth > 0 =>
            /\ streamState = "errored"
            /\ pc = "idle"
            /\ stack = <<>>)
    /\ [][(failedDepth' > 0 /\ turn' = turn) =>
            /\ reads' = reads
            /\ nStreams' = nStreams
            /\ nResumptions' = nResumptions
            /\ enqueued' = enqueued
            /\ streamState' = "errored"]_vars

\* C9 witness: a resumed stream raised an error after a chunk was enqueued
C9_Witness ==
    /\ failedDepth = 2
    /\ Len(enqueued) >= 1
    /\ streamState = "errored"

\* what the latest request and its response say about threads
ThreadOfRequest ==
    /\ request.threadId # 0 => response.created = 0
    /\ response.created # 0 => request.threadId = 0
    /\ response.status = 200 =>
          /\ (response.created # 0) <=> (request.threadId = 0)
          /\ response.header = response.appendedTo
          /\ response.header = response.runThread
          /\ response.header =
                (IF request.threadId = 0 THEN response.created ELSE request.threadId)
          /\ response.header \in 1..nThreads

\* a request creates at most the thread its response names
ThreadCountStep ==
    turn' # turn =>
        /\ nThreads' = nThreads + (IF response'.created # 0 THEN 1 ELSE 0)
        /\ response'.created # 0 => response'.created = nThreads'

\* C10 (as stated): a thread is created only for a request without threadId,
\* the header names the thread of the message and of the run, and in a
\* session whose requests all resend the id returned so far, at most one
\* thread is created.
C10_AtMostOneThread ==
    /\ ThreadOfRequest
    /\ resendsOnly => nThreads <= 1

\* C10 (amended): a thread is created only for a request without threadId,
\* and for each such request that is answered with a stream; the header of a
\* streaming response names the thread of the message and of the run; in a
\* session whose requests all resend the id returned so far, no thread is
\* created once an id has been returned, and that id stays the client's.
C10_NoThreadAfterIdReturned ==
    /\ []ThreadOfRequest
    /\ [][ThreadCountStep]_vars
    /\ [][(resendsOnly' /\ clientThread # 0) =>
            /\ nThreads' = nThreads
            /\ clientThread' = clientThread]_vars

\* C10 witness: the second request resent the id the first one returned and
\* was answered with a stream on that thread
C10_Witness ==
    /\ turn = 2
    /\ resendsOnly
    /\ nThreads = 1
    /\ request.threadId = 1
    /\ response.status = 200
    /\ response.header = 1
    /\ clientThread = 1

\* C11: a request whose message is missing or empty is answered with status
\* 400 and the error "Message is required", without stream; no thread is
\* created, no message is appended and no run is started for it, whatever
\* threadId it carries.
C11_MissingMessageIs400 ==
    /\ []((turn > 0 /\ request.message = "") =>
            /\ response = ErrorResponse(400, 0, "Message is required")
            /\ streamState = "none"
            /\ nStreams = 0
            /\ pc = "idle")
    /\ [][(turn' # turn /\ request'.message = "") => nThreads' = nThreads]_vars

\* C11 witness: after a thread was created, a request that carries its id and
\* no message was answered with 400
C11_Witness ==
    /\ turn = 2
    /\ nThreads = 1
    /\ request = [message |-> "", threadId |-> 1]
    /\ response.status = 400

\* C12: without assistant id, a request that has a message is answered with
\* status 500 and the error "Assistant ID not configured", without stream;
\* no thread is created, no message is appended and no run is started,
\* whether or not the request carries a threadId.
C12_NoAssistantFailsFast ==
    /\ []((turn > 0 /\ ~assistantId /\ request.message # "") =>
            /\ response = ErrorResponse(500, 0, "Assistant ID not configured")
            /\ streamState = "none"
            /\ nStreams = 0
            /\ pc = "idle")
    /\ [](~assistantId => nThreads = 0)

\* C12 witness: without assistant id, a request with a message and a threadId
\* was answered with 500
C12_Witness ==
    /\ ~assistantId
    /\ request.message # ""
    /\ request.threadId = 1
    /\ response.status = 500
    /\ response.error = "Assistant ID not configured"

\* the no-results sentinel of the library the latest search was made with
SentinelOfSearch == IF search.lib = "web" THEN NoResultsWeb ELSE NoResults

\* C13: searchLegalSources returns the fixed sentinel for an empty result
\* list; for n >= 1 results it returns n blocks Title/Link/Snippet in the
\* order the provider returned them, one blank-line separator between two
\* consecutive blocks and none before the first or after the last block.
C13_FormatterBlocks ==
    (search.op = "tool" /\ search.phase = "done") =>
        LET r == search.results
            t == search.text
            n == Len(r)
        IN IF n = 0 THEN t = SentinelOfSearch
           ELSE /\ Len(t) = 7 * n - 1
                /\ \A k \in 1..n :
                      /\ r[k].title = <<"title", search.query, k>>
                      /\ t[7 * k - 6] = Lit("Title: ")
                      /\ t[7 * k - 5] = r[k].title
                      /\ t[7 * k - 4] = Lit("\nLink: ")
                      /\ t[7 * k - 3] = r[k].link
                      /\ t[7 * k - 2] = Lit("\nSnippet: ")
                      /\ t[7 * k - 1] = r[k].snippet
                      /\ k < n => t[7 * k] = Lit("\n\n")

\* C13 witness: searchLegalSources has formatted a list of several results
C13_Witness ==
    /\ search.op = "tool"
    /\ search.phase = "done"
    /\ Len(search.results) >= 2
    /\ Len(search.text) = 7 * Len(search.results) - 1

\* C14: without provider credential no request is sent to the provider,
\* performSearch returns the empty list for every query, a direct search is
\* answered with an empty result list and searchLegalSources returns the
\* sentinel, not an error.
C14_NoCredentialNoNetwork ==
    ~apiKey =>
        /\ search.fetches = 0
        /\ search.phase \in {"idle", "done"}
        /\ search.provider = "none"
        /\ search.results = <<>>
        /\ search.op = "tool" => search.text = SentinelOfSearch
        /\ (search.op = "search" /\ search.query # "") =>
              (search.status = 200 /\ search.error = "")

\* C14 witness: without credential, searchLegalSources has returned the
\* sentinel for a query
C14_Witness ==
    /\ ~apiKey
    /\ search.op = "tool"
    /\ search.query = "q1"
    /\ search.phase = "done"
    /\ search.text = SentinelOfSearch

\* C15 (as stated): when the provider answers a direct search request with a
\* non-success status or the request to it fails, the endpoint responds
\* with status 500 and an error message.
C15_ProviderFailureIs500 ==
    (search.op = "search" /\ search.phase = "done"
         /\ search.provider \in {"nonOk", "networkFail"}) =>
        (search.status = 500 /\ search.error # "")

\* the query of call i of the batch
QueryOf(i) == JSONParse(batch.calls[i].arguments).query

\* what searchLegalSources can return for query q
FormattedFor(q) ==
    {NoResults} \cup {FormatResults(Organic(q, [kind |-> "ok", n |-> n])) : n \in 1..MaxResults}

\* C16: in a submitted batch of searches, every call id has its entry, and
\* the output under a call id is the formatted result of that call's own
\* query: the sentinel when the search found nothing, the blocks of its
\* results otherwise, in whatever order the searches finished.
C16_OutputsMatchCallIds ==
    Submitted =>
        /\ Len(submission.tool_outputs) = Len(batch.calls)
        /\ \A i \in 1..Len(batch.calls) :
              /\ submission.tool_outputs[i].tool_call_id = batch.calls[i].callId
              /\ submission.tool_outputs[i].output = batch.out[i].result
              /\ apiKey => submission.tool_outputs[i].output \in FormattedFor(QueryOf(i))
              /\ ~apiKey => submission.tool_outputs[i].output = NoResults

\* C16 witness: of two searches the second finished first and found nothing,
\* the first found MaxResults results; the submitted batch has the blocks of
\* the first query under the first id and the sentinel under the second
C16_Witness ==
    /\ Submitted
    /\ Len(batch.calls) = 2
    /\ QueryOf(1) = "q1"
    /\ QueryOf(2) = "q2"
    /\ batch.order = <<2, 1>>
    /\ submission.tool_outputs[1] =
          OutputFor(1, FormatResults(Organic("q1", [kind |-> "ok", n |-> MaxResults])))
    /\ submission.tool_outputs[2] = OutputFor(2, NoResults)

\* C17 (as stated): after the caller has disconnected, no further event is
\* read, no dispatch is started and no resumption call is made, so that the
\* outputs of the dispatches in flight are discarded.
C17_AbandonsAfterDisconnect ==
    [][streamState = "cancelled" =>
          /\ reads' = reads
          /\ nToolEvents' = nToolEvents
          /\ nResumptions' = nResumptions]_vars

\* a maximum round count that is below the number of rounds the
\* conversation service may ask for in one run
RoundLimit == MaxRounds - 1

\* C18 (as stated): the orchestrator makes at most a maximum number of
\* resumptions in one run, here RoundLimit, however often the service asks
\* for tools.
C18_RoundsBounded == nResumptions <= RoundLimit

OtherEventRead ==
    /\ reads' = reads + 1
    /\ received' = received
    /\ nToolEvents' = nToolEvents

\* C23: an event that is neither a message delta nor a requires-action
\* event with tool calls enqueues no chunk, dispatches nothing and resumes
\* nothing; consumeStream goes on to await the next event of the same stream.
C23_OtherEventsChangeNothing ==
    [][OtherEventRead =>
          /\ pc = "consume" /\ pc' = "consume"
          /\ UNCHANGED <<stack, nStreams, enqueued, streamState, failedDepth>>
          /\ UNCHANGED <<batch, searches, submission, nResumptions>>]_vars

\* C23 witness: on the initial stream two events of another kind were read
\* and then a delta, whose fragment was relayed
C23_Witness ==
    /\ reads = 3
    /\ Len(received) = 1
    /\ nToolEvents = 0
    /\ received[1].stream = 1
    /\ Len(enqueued) = 1
    /\ pc = "consume"

\* the delta has no usable fragment: no content, a first part that is no
\* text part, or a text part without value
Malformed(content) ==
    \/ Len(content) = 0
    \/ content[1].type # "text"
    \/ ~content[1].hasValue

DeltaRead == Len(received') = Len(received) + 1

LastRead == received'[Len(received')].content

\* C24: a delta whose fragment is absent or malformed is skipped: nothing is
\* enqueued for it, the handling of the run does not fail, and a delta read
\* after it is still relayed, after the chunks relayed before.
C24_MalformedDeltaSkipped ==
    [][DeltaRead =>
          /\ Malformed(LastRead) =>
                /\ enqueued' = enqueued
                /\ UNCHANGED <<pc, stack, streamState, failedDepth>>
          /\ (HasFragment(LastRead)
                 /\ \E i \in 1..Len(received) : Malformed(received[i].content)) =>
                enqueued' = Append(enqueued, Encode(LastRead[1].value))]_vars

\* C24 witness: a delta without content and one with a non-text first part
\* were read, and the delta read after them was relayed
C24_Witness ==
    /\ Len(received) = 3
    /\ received[1].content = <<>>
    /\ received[2].content = <<ImagePart, TextPart(<<97>>)>>
    /\ HasFragment(received[3].content)
    /\ DecodedChunks = <<received[3].content[1].value>>
    /\ pc = "consume"
    /\ streamState = "open"

\* C30: a chunk is enqueued for a delta only when the first content part is
\* a text part with a non-empty value, and the chunk is the encoding of that
\* value; a delta whose text value is the empty string, or whose text is in
\* a second part, enqueues nothing, so chunks can be fewer than deltas.
C30_OnlyFirstNonEmptyTextPart ==
    [][DeltaRead =>
          /\ enqueued' # enqueued =>
                /\ LastRead[1].type = "text"
                /\ LastRead[1].hasValue
                /\ LastRead[1].value # <<>>
                /\ enqueued' = Append(enqueued, Encode(LastRead[1].value))
          /\ LastRead = <<TextPart(<<>>)>> => enqueued' = enqueued
          /\ (Len(LastRead) >= 2 /\ LastRead[1].type # "text") => enqueued' = enqueued
          /\ Len(enqueued') <= Len(received')]_vars

\* C30 witness: of three deltas read, one with the empty string as value,
\* one with its text in the second part and one with the text "a", only the
\* last one was relayed
C30_Witness ==
    /\ Len(received) = 3
    /\ received[1].content = <<TextPart(<<>>)>>
    /\ received[2].content = <<ImagePart, TextPart(<<97>>)>>
    /\ received[3].content = <<TextPart(<<97>>)>>
    /\ enqueued = <<Encode(<<97>>)>>

\* C25: the response stream is closed only when the initial stream, the
\* last one still read, ends, every resumed stream having ended before it
\* and every round of tool calls having been resumed; once closed it stays
\* closed and nothing more is enqueued; and the handling of a run that meets
\* no error does end with the close.
C25_ClosedOnceAfterAllStreams ==
    /\ [](streamState = "closed" =>
             /\ pc = "idle"
             /\ stack = <<>>
             /\ failedDepth = 0
             /\ nResumptions = nToolEvents
             /\ batch = NoBatch)
    /\ [][(streamState # "closed" /\ streamState' = "closed") =>
             /\ pc = "consume"
             /\ stack = <<1>>
             /\ enqueued' = enqueued]_vars
    /\ [][streamState = "closed" =>
             UNCHANGED <<streamState, enqueued, reads, nStreams, pc>>]_vars
    /\ [](streamState = "errored" => (failedDepth > 0 \/ SomeRejected(batch.out)))
    /\ (streamState = "open") ~> (streamState \in {"closed", "errored"})

\* C25 witness: a run with two rounds of tool calls has ended: three streams
\* were read, chunks were relayed, and the response stream is closed
C25_Witness ==
    /\ streamState = "closed"
    /\ nToolEvents = 2
    /\ nStreams = 3
    /\ Len(enqueued) >= 1

\* a request was answered that needed a new thread, and none was created
CreateFailed ==
    /\ turn' = turn + 1
    /\ request'.message # ""
    /\ assistantId
    /\ request'.threadId = 0
    /\ nThreads' = nThreads

\* a request was answered whose message was appended to no thread, although
\* the thread was there
AppendFailed ==
    /\ turn' = turn + 1
    /\ request'.message # ""
    /\ assistantId
    /\ request'.threadId # 0 \/ nThreads' = nThreads + 1
    /\ response'.appendedTo = 0

\* C27: when the creation of the thread or the append of the message fails,
\* the answer is a 500 with an error field; no run is started and no stream
\* is produced; the id of a thread that was created before the append failed
\* is not returned, so the client keeps the id it had.
C27_ThreadFailureIs500 ==
    [][(CreateFailed \/ AppendFailed) =>
          /\ response'.status = 500
          /\ response'.error # ""
          /\ response'.runThread = 0
          /\ response'.header = 0
          /\ pc' = "idle"
          /\ streamState' = "none"
          /\ nStreams' = 0
          /\ clientThread' = clientThread]_vars

\* C27 witness: the first request of a session had its thread created, the
\* append failed, and the client still has no thread id
C27_Witness ==
    /\ turn = 1
    /\ request.threadId = 0
    /\ nThreads = 1
    /\ response.created = 1
    /\ response.appendedTo = 0
    /\ response.status = 500
    /\ response.error = ServiceError
    /\ clientThread = 0
    /\ streamState = "none"

\* C26: a failure after the run has started leaves the response as it was
\* returned: a streaming response with the x-thread-id header, never the
\* JSON error; the client holds that thread id, and a next request that
\* carries it goes on on the same thread.
C26_LateFailureKeepsThread ==
    /\ [](streamState = "errored" =>
             /\ response.status = 200
             /\ response.error = ""
             /\ response.header # 0
             /\ response.header = response.runThread
             /\ clientThread = response.header)
    /\ [][turn' = turn => UNCHANGED <<response, clientThread>>]_vars
    /\ [][(streamState = "errored" /\ turn' = turn + 1
              /\ request'.threadId = clientThread /\ response'.status = 200) =>
             /\ response'.created = 0
             /\ response'.appendedTo = clientThread
             /\ response'.runThread = clientThread
             /\ UNCHANGED <<clientThread, nThreads>>]_vars

\* C26 witness: the second request of a session carried the id of the
\* thread the first one created, and its run failed on the stream of a
\* resumed run: the response is the streaming one and the client holds the id
C26_Witness ==
    /\ turn = 2
    /\ nThreads = 1
    /\ request.threadId = 1
    /\ response.status = 200
    /\ response.created = 0
    /\ streamState = "errored"
    /\ failedDepth = 2
    /\ clientThread = 1

\* handleSubmit has not finished for the n-th chat request of the client
InFlightNo(n) == \E r \in inFlight : r.n = n

\* C28: every way in which a handleSubmit that has set isLoading ends clears
\* it, isLoading is set only while a request is in flight, and every request
\* whose response arrives and whose body ends or fails is followed by a
\* state in which it is finished and isLoading is false.
C28_LoadingEventuallyCleared ==
    /\ [][\A r \in inFlight : (InFlightNo(r.n) /\ ~InFlightNo(r.n)') => ~isLoading']_vars
    /\ [](isLoading => inFlight # {})
    /\ \A n \in 1..MaxTurns : InFlightNo(n) ~> (~InFlightNo(n) /\ ~isLoading)
    /\ isLoading ~> ~isLoading

\* C28 witness: two requests are finished, one through catch and one without
\* error, and isLoading is false
C28_Witness ==
    /\ turn = 2
    /\ inFlight = {}
    /\ nErrors = 1
    /\ ~isLoading
    /\ rendered = Current

\* handleSubmit of chat request r ends in this step through catch
Fails(r) ==
    /\ r \in inFlight
    /\ ~InFlightNo(r.n)'
    /\ nErrors' = nErrors + 1

\* chat request r has shown some answer text
HasText(r) == r.phase = "streaming" /\ reading[r.n].assistantMessage # <<>>

\* the places of the assistant messages that chat request r has appended
PlacesOf(r) == IF r.n \in DOMAIN reading THEN {reading[r.n].slot} ELSE {}

\* C21 (as stated): when a turn fails, the messages shown stay as they are
\* and the apology is appended as the last message; when it fails before any
\* text, the apology is the only assistant message the turn has appended.
C21_PartialTextThenApology ==
    [][\A r \in inFlight : Fails(r) =>
          /\ messages' = Append(messages, ApologyMessage)
          /\ ~HasText(r) => PlacesOf(r) = {}]_vars

====
